---- MODULE Spec2Model ----
(***************************************************************************)
(* Ledger and future-transaction engine of the transaction service.        *)
(*                                                                         *)
(* The database is the shared state: the accounts, transactions and        *)
(* future_transactions tables.  Every request handler and every Celery     *)
(* task runs in an SQLAlchemy session of its own (app/db/session.py):      *)
(* rows it has loaded are Python objects that keep the values read at load *)
(* time (expire_on_commit=False), and every repository call ends in        *)
(* session.commit().  A handler is therefore a chain of separately         *)
(* committed steps; each `await` on the database is one step of the        *)
(* process below, and steps of different sessions interleave.              *)
(***************************************************************************)
EXTENDS Integers, Sequences, FiniteSets, TLC

\* ------------------------------------------------------------- bounds
MaxInitial == 1        \* opening balance of the account: 0..MaxInitial
MaxAmount == 2         \* request amounts: 1..MaxAmount
MaxTransactions == 2   \* rows the transactions table may hold
MaxFuture == 2         \* rows the future_transactions table may hold
MaxDay == 1            \* due dates range over 0..MaxDay, date.today() one day further
MaxCalls == 3          \* requests and task runs that start in one behaviour

Procs == {1, 2}        \* concurrent sessions; the session's number is its user_id
Accounts == {1}        \* ids of the rows of the accounts table
AccountIds == {1, 2}   \* account ids a request may name (2 is unknown)
Amounts == 1..MaxAmount
Days == 0..MaxDay
Leads == {0, 1}        \* notification_days: the lead times, in days, a request may name

\* app/domain/enums.py
INCOME == "income"
EXPENSE == "expense"
TransactionCategory == {INCOME, EXPENSE}
PENDING == "pending"
VERIFIED == "verified"
PROCESSED == "processed"
VOIDED == "voided"
FAILED == "failed"
TransactionStatus == {PENDING, VERIFIED, PROCESSED, VOIDED, FAILED}
SCHEDULED == "scheduled"
TRIGGERED == "triggered"
SCRAPPED == "scrapped"
EXPIRED == "expired"
FutureTransactionStatus == {SCHEDULED, TRIGGERED, PROCESSED, SCRAPPED, EXPIRED}
AUTOMATIC == "automatic"
MANUAL == "manual"
FutureTransactionTrigger == {AUTOMATIC, MANUAL}

\* app/core/exceptions.py: what a call ends with
NONE == "none"            \* the call has not ended yet
OK == "ok"
NotFoundError == "NotFoundError"
InsufficientBalanceError == "InsufficientBalanceError"
InvalidTransactionError == "InvalidTransactionError"
AlreadyProcessedError == "AlreadyProcessedError"
DatabaseError == "DatabaseError"
\* InsufficientBalanceError("Insufficient funds to process transaction"), as trigger raises it
InsufficientToProcess == "InsufficientBalanceError: Insufficient funds to process transaction"
\* pydantic's error when an event is built without a field its class requires
ValidationError == "ValidationError"

\* Python's error for `await` on a value that is not awaitable
TypeError == "TypeError"

\* The operating-system processes, each with its own event_publisher and cache_manager:
\* the API server runs the request handlers, the Celery worker runs the tasks.
API == "api"
WORKER == "worker"
Processes == {API, WORKER}

VARIABLES
    accounts,             \* accounts table: id -> [current_balance, available_balance]
    transactions,         \* transactions table: sequence of rows, id = index
    future_transactions,  \* future_transactions table: sequence of rows, id = index
    today,                \* date.today()
    pc,                   \* each session's position in its handler
    local,                \* each session's arguments and loaded ORM objects
    result,               \* how each session's last call ended
    initial_balance,      \* the balance each account was opened with (never changes)
    calls,                \* requests and task runs started so far
    queue,                \* EventPublisher._queue of each operating-system process
    stream,               \* the events written to the Redis streams (xadd)
    notifications,        \* the messages celery_app.send_task has put on the broker
    publishing            \* each process's position in the loop of publish_events

vars == <<accounts, transactions, future_transactions, today, pc, local, result,
          initial_balance, calls, queue, stream, notifications, publishing>>

\* ------------------------------------------------------------- rows
\* An Account object as a session holds it; loaded = FALSE: not in the identity map.
NoAccount == [loaded |-> FALSE, current_balance |-> 0, available_balance |-> 0]

Loaded(row) == [loaded |-> TRUE, current_balance |-> row.current_balance,
                available_balance |-> row.available_balance]

\* notify: the payload names notification_days and notification_users (the two are
\* given together); notification_days: the lead times it names.
NoLocal == [account_id |-> 0, amount |-> 0, category |-> "none", txn |-> 0, ft |-> 0,
            account |-> NoAccount, due |-> {}, total |-> 0,
            trigger_type |-> "none", due_date |-> 0,
            notify |-> FALSE, notification_days |-> {}, is_active |-> TRUE]

\* The status of a row just inserted.  Neither create assigns one and the columns
\* have no default: the state machines begin in pending and in scheduled.
NewTransactionStatus == PENDING
NewFutureTransactionStatus == SCHEDULED

\* Transaction(...): the row TransactionRepository.create inserts.  The payload
\* carries no status, so the row is not yet processed.  source is the
\* future transaction the row was made for (0: a direct create); posted and
\* reversals count the balance commits made for this row (history, not columns).
\* processed_date is FALSE while the column is NULL.
Transaction(account_id, amount, category, source) ==
    [account_id |-> account_id, amount |-> amount, category |-> category,
     status |-> NewTransactionStatus, processed_date |-> FALSE,
     verified_by_user_id |-> 0,
     source |-> source, posted |-> 0, reversals |-> 0]

\* FutureTransaction(...): the row FutureTransactionRepository.create inserts.
FutureTransaction(account_id, amount, category, trigger_type, due_date, notification_days) ==
    [account_id |-> account_id, amount |-> amount, category |-> category,
     status |-> NewFutureTransactionStatus, trigger_type |-> trigger_type,
     due_date |-> due_date, notification_days |-> notification_days,
     triggered_by_user_id |-> 0, scrapped_by_user_id |-> 0]

\* ------------------------------------------------------------- helpers
\* The end of a call: the session is closed, its objects are gone.
Return(p, outcome) ==
    /\ pc' = [pc EXCEPT ![p] = "idle"]
    /\ local' = [local EXCEPT ![p] = NoLocal]
    /\ result' = [result EXCEPT ![p] = outcome]
    /\ calls' = calls

\* The start of a call with its arguments: a fresh session.
Begin(p, label, args) ==
    /\ pc[p] = "idle"
    /\ calls < MaxCalls
    /\ calls' = calls + 1
    /\ pc' = [pc EXCEPT ![p] = label]
    /\ local' = [local EXCEPT ![p] = args]
    /\ result' = [result EXCEPT ![p] = NONE]

Goto(p, label) ==
    /\ pc' = [pc EXCEPT ![p] = label]
    /\ result' = result
    /\ calls' = calls

\* AccountRepository.get: the row, loaded into the session unless the session
\* already holds the object (the identity map keeps the attributes it has).
AcctGet(p, account_id) ==
    IF local[p].account.loaded THEN local[p].account ELSE Loaded(accounts[account_id])

\* AccountRepository.adjust_balance: the guard ...
AdjustRaises(account, amount, credit) ==
    ~credit /\ account.current_balance < amount

\* A variant that forgets `available_balance += delta` on a debit.
AdjustedCurrentOnly(account, amount, credit) ==
    LET delta == IF credit THEN amount ELSE 0 - amount
    IN [account EXCEPT !.current_balance = @ + delta,
                       !.available_balance = IF credit THEN @ + delta ELSE @]

\* ... and the object after `current_balance += delta; available_balance += delta`.
Adjusted(account, amount, credit) ==
    LET delta == IF credit THEN amount ELSE 0 - amount
    IN [account EXCEPT !.current_balance = @ + delta,
                       !.available_balance = @ + delta]

\* session.commit() of a changed Account object: its two balances are written.
Flush(account_id, account) ==
    [accounts EXCEPT ![account_id].current_balance = account.current_balance,
                     ![account_id].available_balance = account.available_balance]

\* ------------------------------------------------------------- events
\* The fields each event class requires (events/publisher.py: the parameters of
\* __init__; events/events.py: the pydantic fields without a default).
Required(event_type) ==
    CASE event_type = "transaction.created" ->
            {"transaction_id", "account_id", "amount", "category", "user_id"}
      [] event_type = "transaction.voided" ->
            {"transaction_id", "account_id", "voided_by_user_id"}
      [] event_type = "transaction.verified" ->
            {"transaction_id", "account_id", "verified_by_user_id"}
      [] event_type = "future_transaction.created" ->
            {"future_transaction_id", "account_id", "amount", "due_date",
             "created_by_user_id", "description"}
      [] event_type = "future_transaction.triggered" ->
            {"future_transaction_id", "transaction_id", "account_id", "amount"}
      [] event_type = "future_transaction.cancelled" ->
            {"future_transaction_id", "account_id", "cancelled_by_user_id"}

\* The keyword arguments each call site builds its event with.
CreateTransactionEvent == {"transaction_id", "account_id", "amount", "category", "user_id"}
VoidTransactionEvent == {"transaction_id", "account_id", "voided_by_user_id"}
VerifyTransactionEvent == {"transaction_id", "account_id", "verified_by_user_id"}
CreateFutureEvent == {"future_transaction_id", "transaction_id", "account_id", "amount",
                      "due_date", "trigger_type", "user_id"}
TriggerFutureEvent == {"future_transaction_id", "transaction_id", "account_id",
                       "triggered_by_user_id"}
ScrapFutureEvent == {"future_transaction_id", "transaction_id", "account_id",
                     "scrapped_by_user_id"}
ProcessDueFutureEvent == {"future_transaction_id", "transaction_id", "account_id"}

\* The event object is built: every required field is among the arguments
\* (arguments the class does not declare are ignored).
Constructs(event_type, kwargs) == Required(event_type) \subseteq kwargs

\* A variant of the rollback that also undoes what the handler has committed.
RolledBackToSnapshot(snapshot, committed) == snapshot

\* get_session's `except Exception: await session.rollback(); raise`: of a table the
\* handler found as `snapshot` and has committed as `committed`, the commit stays.
RolledBack(snapshot, committed) == committed

\* A table after the last commit of a handler and the event built behind it.
AfterEmit(event_type, kwargs, snapshot, committed) ==
    IF Constructs(event_type, kwargs) THEN committed ELSE RolledBack(snapshot, committed)

\* EventPublisher.add_event on the event_publisher of the process the code runs in,
\* and the end of the call; building the event may raise instead.
Emit(p, process, event_type, kwargs, id) ==
    IF Constructs(event_type, kwargs)
    THEN /\ queue' = [queue EXCEPT ![process] =
                         Append(@, [event_type |-> event_type, id |-> id])]
         /\ Return(p, OK)
    ELSE /\ queue' = queue
         /\ Return(p, ValidationError)

\* cache_manager.redis_client: the API server calls init_cache at startup, the
\* worker never does.
RedisClient(process) == process = API

\* EventPublisher.publish_events: without a client it returns; with one it writes
\* every queued event to the stream and clears the queue.
PublishedStream(process) ==
    IF RedisClient(process) THEN stream \o queue[process] ELSE stream

PublishedQueue(process) ==
    IF RedisClient(process) THEN [queue EXCEPT ![process] = <<>>] ELSE queue

\* ------------------------------------------------------------- notifications
\* The Celery messages about reminders: the task named, the future transaction and
\* the lead time (days_before, or the offset in the subject of send_notification).
SEND_FUTURE_TRANSACTION_NOTIFICATION == "send_future_transaction_notification"
SEND_NOTIFICATION == "send_notification"
Messages == [task : {SEND_FUTURE_TRANSACTION_NOTIFICATION, SEND_NOTIFICATION},
             future_transaction_id : 1..MaxFuture, days_before : Leads]

\* celery_app.send_task(task, ...) once for each of the lead times.
SendTask(task, future_transaction_id, leads) ==
    [m \in Messages |->
        notifications[m] + (IF /\ m.task = task
                               /\ m.future_transaction_id = future_transaction_id
                               /\ m.days_before \in leads
                            THEN 1 ELSE 0)]

\* FutureTransaction.get_notification_days_list: the lead times stored in the row.
GetNotificationDaysList(future_txn) == future_txn.notification_days

\* _schedule_notifications: the lead times whose notification date,
\* due_date - days_before, is after today; none when the row names no lead time.
\* Nothing queued earlier for the row is revoked.
ScheduleNotifications(future_txn, day) ==
    {days_before \in GetNotificationDaysList(future_txn) :
        future_txn.due_date - days_before > day}

\* ------------------------------------------------------------- Init
Init ==
    /\ \E b \in 0..MaxInitial :
          /\ accounts = [a \in Accounts |-> [current_balance |-> b, available_balance |-> b,
                                              is_active |-> TRUE]]
          /\ initial_balance = [a \in Accounts |-> b]
    /\ transactions = <<>>
    /\ future_transactions = <<>>
    /\ today = 0
    /\ pc = [p \in Procs |-> "idle"]
    /\ local = [p \in Procs |-> NoLocal]
    /\ result = [p \in Procs |-> OK]
    /\ calls = 0
    /\ queue = [process \in Processes |-> <<>>]
    /\ stream = <<>>
    /\ notifications = [m \in Messages |-> 0]
    /\ publishing = [process \in Processes |-> 0]

\* ------------------------------------------------------------- create_transaction
\* POST /transactions: the request arrives.
CallCreateTransaction(p) ==
    /\ \E account_id \in AccountIds, amount \in Amounts, category \in TransactionCategory :
          Begin(p, "ct_get", [NoLocal EXCEPT !.account_id = account_id,
                                             !.amount = amount,
                                             !.category = category])
    /\ UNCHANGED <<accounts, transactions, future_transactions, today, initial_balance, queue, stream, notifications, publishing>>

\* A variant that compares with `<` turned around.
CreateInsufficientReversed(account, amount, category) ==
    category = EXPENSE /\ account.available_balance > amount

\* The funds check of create_transaction on the account it has just loaded.
CreateInsufficient(account, amount, category) ==
    category = EXPENSE /\ account.available_balance < amount

\* acct_repo.get, the not-found and the funds check.
CreateTransactionGet(p) ==
    /\ pc[p] = "ct_get"
    /\ IF local[p].account_id \notin DOMAIN accounts
       THEN Return(p, NotFoundError)
       ELSE LET account == AcctGet(p, local[p].account_id)
            IN IF CreateInsufficient(account, local[p].amount, local[p].category)
               THEN Return(p, InsufficientBalanceError)
               ELSE /\ local' = [local EXCEPT ![p].account = account]
                    /\ Goto(p, "ct_create")
    /\ UNCHANGED <<accounts, transactions, future_transactions, today, initial_balance, queue, stream, notifications, publishing>>

\* txn_repo.create: the row is inserted and committed.
CreateTransactionCreate(p) ==
    /\ pc[p] = "ct_create"
    /\ Len(transactions) < MaxTransactions
    /\ transactions' = Append(transactions,
          Transaction(local[p].account_id, local[p].amount, local[p].category, 0))
    /\ local' = [local EXCEPT ![p].txn = Len(transactions) + 1]
    /\ Goto(p, "ct_adjust")
    /\ UNCHANGED <<accounts, future_transactions, today, initial_balance, queue, stream, notifications, publishing>>

\* A variant that debits an income and credits an expense.
CreateCreditReversed(category) == category = EXPENSE

\* credit = payload.category == TransactionCategory.INCOME
CreateCredit(category) == category = INCOME

\* acct_repo.adjust_balance(account, amount, credit): raises, or commits the balances.
CreateTransactionAdjust(p) ==
    /\ pc[p] = "ct_adjust"
    /\ LET credit == CreateCredit(local[p].category)
       IN IF AdjustRaises(local[p].account, local[p].amount, credit)
          THEN /\ Return(p, InsufficientBalanceError)
               /\ UNCHANGED <<accounts, transactions>>
          ELSE LET account == Adjusted(local[p].account, local[p].amount, credit)
               IN /\ accounts' = Flush(local[p].account_id, account)
                  /\ transactions' = [transactions EXCEPT ![local[p].txn].posted = @ + 1]
                  /\ local' = [local EXCEPT ![p].account = account]
                  /\ Goto(p, "ct_commit")
    /\ UNCHANGED <<future_transactions, today, initial_balance, queue, stream, notifications, publishing>>

\* txn.status = PROCESSED; txn.processed_date = utcnow(); session.commit(); then the
\* TransactionCreatedEvent and the response.
CreateTransactionCommit(p) ==
    /\ pc[p] = "ct_commit"
    /\ transactions' = AfterEmit("transaction.created", CreateTransactionEvent, transactions,
          [transactions EXCEPT ![local[p].txn].status = PROCESSED,
                               ![local[p].txn].processed_date = TRUE])
    /\ Emit(p, API, "transaction.created", CreateTransactionEvent, local[p].txn)
    /\ UNCHANGED <<accounts, future_transactions, today, initial_balance, stream, notifications, publishing>>

\* ------------------------------------------------------------- void_transaction
\* POST /transactions/daily/{transaction_id}/void: the request arrives.
CallVoidTransaction(p) ==
    /\ \E txn \in 1..(Len(transactions) + 1) :
          Begin(p, "vt_get", [NoLocal EXCEPT !.txn = txn])
    /\ UNCHANGED <<accounts, transactions, future_transactions, today, initial_balance, queue, stream, notifications, publishing>>

\* txn_repo.get_by_transaction_id: the row with that id, or None.
TxnGetByTransactionId(txn) ==
    IF txn \in DOMAIN transactions THEN transactions[txn] ELSE [status |-> NONE]

\* The row is loaded; only a processed one has a posting to reverse.
VoidTransactionGet(p) ==
    /\ pc[p] = "vt_get"
    /\ LET txn == TxnGetByTransactionId(local[p].txn)
       IN IF txn.status = NONE
          THEN Return(p, NotFoundError)
          ELSE /\ local' = [local EXCEPT ![p].account_id = txn.account_id,
                                         ![p].amount = txn.amount,
                                         ![p].category = txn.category]
               /\ Goto(p, IF txn.status = PROCESSED THEN "vt_acct" ELSE "vt_void")
    /\ UNCHANGED <<accounts, transactions, future_transactions, today, initial_balance, queue, stream, notifications, publishing>>

\* acct_repo.get(txn.account_id)
VoidTransactionAcct(p) ==
    /\ pc[p] = "vt_acct"
    /\ local' = [local EXCEPT ![p].account = AcctGet(p, local[p].account_id)]
    /\ Goto(p, "vt_adjust")
    /\ UNCHANGED <<accounts, transactions, future_transactions, today, initial_balance, queue, stream, notifications, publishing>>

\* A variant that repeats the direction of the original posting.
VoidCreditAsPosted(category) == category = INCOME

\* The direction of the reversal: an expense is credited back, an income debited.
VoidCredit(category) == category = EXPENSE

\* acct_repo.adjust_balance(account, txn.amount, credit): the reversal.
VoidTransactionAdjust(p) ==
    /\ pc[p] = "vt_adjust"
    /\ LET credit == VoidCredit(local[p].category)
       IN IF AdjustRaises(local[p].account, local[p].amount, credit)
          THEN /\ Return(p, InsufficientBalanceError)
               /\ UNCHANGED <<accounts, transactions>>
          ELSE LET account == Adjusted(local[p].account, local[p].amount, credit)
               IN /\ accounts' = Flush(local[p].account_id, account)
                  /\ transactions' = [transactions EXCEPT ![local[p].txn].reversals = @ + 1]
                  /\ local' = [local EXCEPT ![p].account = account]
                  /\ Goto(p, "vt_void")
    /\ UNCHANGED <<future_transactions, today, initial_balance, queue, stream, notifications, publishing>>

\* txn_repo.void_transaction(txn): the row is marked voided and committed.
TxnVoidTransaction(txn) ==
    [transactions EXCEPT ![txn].status = VOIDED]

\* ... then the TransactionVoidedEvent and the response.
VoidTransactionVoid(p) ==
    /\ pc[p] = "vt_void"
    /\ transactions' = AfterEmit("transaction.voided", VoidTransactionEvent, transactions,
          TxnVoidTransaction(local[p].txn))
    /\ Emit(p, API, "transaction.voided", VoidTransactionEvent, local[p].txn)
    /\ UNCHANGED <<accounts, future_transactions, today, initial_balance, stream, notifications, publishing>>

\* ------------------------------------------------------------- update_transaction
\* PUT /transactions/daily/{transaction_id}: the request arrives; of the payload's
\* fields the category is modelled.
CallUpdateTransaction(p) ==
    /\ \E txn \in 1..(Len(transactions) + 1), category \in TransactionCategory :
          Begin(p, "ut_get", [NoLocal EXCEPT !.txn = txn, !.category = category])
    /\ UNCHANGED <<accounts, transactions, future_transactions, today, initial_balance, queue, stream, notifications, publishing>>

\* The row is loaded; a processed one is refused.
UpdateTransactionGet(p) ==
    /\ pc[p] = "ut_get"
    /\ LET txn == TxnGetByTransactionId(local[p].txn)
       IN IF txn.status = NONE
          THEN Return(p, NotFoundError)
          ELSE IF txn.status = PROCESSED
          THEN Return(p, AlreadyProcessedError)
          ELSE /\ local' = local
               /\ Goto(p, "ut_update")
    /\ UNCHANGED <<accounts, transactions, future_transactions, today, initial_balance, queue, stream, notifications, publishing>>

\* txn_repo.update(txn, payload): setattr of the fields the payload sets; commit.
UpdateTransactionUpdate(p) ==
    /\ pc[p] = "ut_update"
    /\ transactions' = [transactions EXCEPT ![local[p].txn].category = local[p].category]
    /\ Return(p, OK)
    /\ UNCHANGED <<accounts, future_transactions, today, initial_balance, queue, stream, notifications, publishing>>

\* ------------------------------------------------------------- verify_transaction
\* TransactionService.verify_transaction is called.
CallVerifyTransaction(p) ==
    /\ \E txn \in 1..(Len(transactions) + 1) :
          Begin(p, "vf_get", [NoLocal EXCEPT !.txn = txn])
    /\ UNCHANGED <<accounts, transactions, future_transactions, today, initial_balance, queue, stream, notifications, publishing>>

\* A variant of the guard that lets every status through.
NotPendingNever(txn) == FALSE

\* The guard of verify on the row it has just loaded.
NotPending(txn) == txn.status # PENDING

VerifyTransactionGet(p) ==
    /\ pc[p] = "vf_get"
    /\ LET txn == TxnGetByTransactionId(local[p].txn)
       IN IF txn.status = NONE
          THEN Return(p, NotFoundError)
          ELSE IF NotPending(txn)
          THEN Return(p, AlreadyProcessedError)
          ELSE /\ local' = local
               /\ Goto(p, "vf_verify")
    /\ UNCHANGED <<accounts, transactions, future_transactions, today, initial_balance, queue, stream, notifications, publishing>>

\* txn_repo.verify_transaction(txn, user_id): the row is marked verified, the
\* verifier stamped, and committed.
TxnVerifyTransaction(txn, user_id) ==
    [transactions EXCEPT ![txn].status = VERIFIED,
                         ![txn].verified_by_user_id = user_id]

\* ... then the TransactionVerifiedEvent and the response.
VerifyTransactionVerify(p) ==
    /\ pc[p] = "vf_verify"
    /\ transactions' = AfterEmit("transaction.verified", VerifyTransactionEvent, transactions,
          TxnVerifyTransaction(local[p].txn, p))
    /\ Emit(p, API, "transaction.verified", VerifyTransactionEvent, local[p].txn)
    /\ UNCHANGED <<accounts, future_transactions, today, initial_balance, stream, notifications, publishing>>

\* ------------------------------------------------------------- trigger_future_transaction
\* POST /transactions/future/{transaction_id}/trigger: the request arrives.
CallTriggerFuture(p) ==
    /\ \E ft \in 1..(Len(future_transactions) + 1) :
          Begin(p, "tf_get", [NoLocal EXCEPT !.ft = ft])
    /\ UNCHANGED <<accounts, transactions, future_transactions, today, initial_balance, queue, stream, notifications, publishing>>

\* FutureTransactionRepository.get_by_transaction_id: the row with that id, or None.
FutureGetByTransactionId(ft) ==
    IF ft \in DOMAIN future_transactions THEN future_transactions[ft] ELSE [status |-> NONE]

\* A variant of the guard that lets every status through.
NotScheduledNever(future_txn) == FALSE

\* The guard of trigger, scrap and update on the row they have just loaded.
NotScheduled(future_txn) == future_txn.status # SCHEDULED

TriggerFutureGet(p) ==
    /\ pc[p] = "tf_get"
    /\ LET future_txn == FutureGetByTransactionId(local[p].ft)
       IN IF future_txn.status = NONE
          THEN Return(p, NotFoundError)
          ELSE IF NotScheduled(future_txn)
          THEN Return(p, AlreadyProcessedError)
          ELSE /\ local' = [local EXCEPT ![p].account_id = future_txn.account_id,
                                         ![p].amount = future_txn.amount,
                                         ![p].category = future_txn.category]
               /\ Goto(p, "tf_acct")
    /\ UNCHANGED <<accounts, transactions, future_transactions, today, initial_balance, queue, stream, notifications, publishing>>

\* A variant that checks the funds of an income instead.
TriggerInsufficientIncome(account, amount, category) ==
    category = INCOME /\ account.available_balance < amount

\* The funds check of trigger on the account it has just loaded.
TriggerInsufficient(account, amount, category) ==
    category = EXPENSE /\ account.available_balance < amount

\* acct_repo.get(future_txn.account_id) and the funds check.
TriggerFutureAcct(p) ==
    /\ pc[p] = "tf_acct"
    /\ LET account == AcctGet(p, local[p].account_id)
       IN IF TriggerInsufficient(account, local[p].amount, local[p].category)
          THEN Return(p, InsufficientToProcess)
          ELSE /\ local' = [local EXCEPT ![p].account = account]
               /\ Goto(p, "tf_create")
    /\ UNCHANGED <<accounts, transactions, future_transactions, today, initial_balance, queue, stream, notifications, publishing>>

\* actual_txn = txn_repo.create(txn_create, user_id)
TriggerFutureCreate(p) ==
    /\ pc[p] = "tf_create"
    /\ Len(transactions) < MaxTransactions
    /\ transactions' = Append(transactions,
          Transaction(local[p].account_id, local[p].amount, local[p].category, local[p].ft))
    /\ local' = [local EXCEPT ![p].txn = Len(transactions) + 1]
    /\ Goto(p, "tf_adjust")
    /\ UNCHANGED <<accounts, future_transactions, today, initial_balance, queue, stream, notifications, publishing>>

\* acct_repo.adjust_balance(account, future_txn.amount, credit)
TriggerFutureAdjust(p) ==
    /\ pc[p] = "tf_adjust"
    /\ LET credit == local[p].category = INCOME
       IN IF AdjustRaises(local[p].account, local[p].amount, credit)
          THEN /\ Return(p, InsufficientBalanceError)
               /\ UNCHANGED <<accounts, transactions>>
          ELSE LET account == Adjusted(local[p].account, local[p].amount, credit)
               IN /\ accounts' = Flush(local[p].account_id, account)
                  /\ transactions' = [transactions EXCEPT ![local[p].txn].posted = @ + 1]
                  /\ local' = [local EXCEPT ![p].account = account]
                  /\ Goto(p, "tf_status")
    /\ UNCHANGED <<future_transactions, today, initial_balance, queue, stream, notifications, publishing>>

\* future_txn.status = PROCESSED; triggered_by_user_id = user_id; session.commit()
TriggerFutureStatus(p) ==
    /\ pc[p] = "tf_status"
    /\ future_transactions' = [future_transactions EXCEPT
          ![local[p].ft].status = PROCESSED,
          ![local[p].ft].triggered_by_user_id = p]
    /\ local' = local
    /\ Goto(p, "tf_txn")
    /\ UNCHANGED <<accounts, transactions, today, initial_balance, queue, stream, notifications, publishing>>

\* actual_txn.status = PROCESSED; processed_date = utcnow(); session.commit(); then
\* the FutureTransactionTriggeredEvent and the response.
TriggerFutureTxn(p) ==
    /\ pc[p] = "tf_txn"
    /\ transactions' = AfterEmit("future_transaction.triggered", TriggerFutureEvent,
          transactions,
          [transactions EXCEPT ![local[p].txn].status = PROCESSED,
                               ![local[p].txn].processed_date = TRUE])
    /\ Emit(p, API, "future_transaction.triggered", TriggerFutureEvent, local[p].ft)
    /\ UNCHANGED <<accounts, future_transactions, today, initial_balance, stream, notifications, publishing>>

\* ------------------------------------------------------------- scrap_future_transaction
\* POST /transactions/future/{transaction_id}/scrap: the request arrives.
CallScrapFuture(p) ==
    /\ \E ft \in 1..(Len(future_transactions) + 1) :
          Begin(p, "sf_get", [NoLocal EXCEPT !.ft = ft])
    /\ UNCHANGED <<accounts, transactions, future_transactions, today, initial_balance, queue, stream, notifications, publishing>>

ScrapFutureGet(p) ==
    /\ pc[p] = "sf_get"
    /\ LET future_txn == FutureGetByTransactionId(local[p].ft)
       IN IF future_txn.status = NONE
          THEN Return(p, NotFoundError)
          ELSE IF NotScheduled(future_txn)
          THEN Return(p, AlreadyProcessedError)
          ELSE /\ local' = local
               /\ Goto(p, "sf_commit")
    /\ UNCHANGED <<accounts, transactions, future_transactions, today, initial_balance, queue, stream, notifications, publishing>>

\* future_txn.status = SCRAPPED; scrapped_by_user_id = user_id; session.commit();
\* then the FutureTransactionCancelledEvent and the response.
ScrapFutureCommit(p) ==
    /\ pc[p] = "sf_commit"
    /\ future_transactions' = AfterEmit("future_transaction.cancelled", ScrapFutureEvent,
          future_transactions,
          [future_transactions EXCEPT ![local[p].ft].status = SCRAPPED,
                                      ![local[p].ft].scrapped_by_user_id = p])
    /\ Emit(p, API, "future_transaction.cancelled", ScrapFutureEvent, local[p].ft)
    /\ UNCHANGED <<accounts, transactions, today, initial_balance, stream, notifications, publishing>>

\* ------------------------------------------------------------- update_future_transaction
\* The update request arrives; of the payload's fields the trigger type and the
\* notification lists are modelled.
UpdateFutureRequest(p, notify, notification_days) ==
    /\ \E ft \in 1..(Len(future_transactions) + 1), trigger_type \in FutureTransactionTrigger :
          Begin(p, "uf_get", [NoLocal EXCEPT !.ft = ft, !.trigger_type = trigger_type,
                                             !.notify = notify,
                                             !.notification_days = notification_days])
    /\ UNCHANGED <<accounts, transactions, future_transactions, today, initial_balance, queue, stream, notifications, publishing>>

\* The payload leaves notification_days and notification_users unset.
CallUpdateFuture(p) == UpdateFutureRequest(p, FALSE, {})

\* The payload sets the users to notify and the lead times.
CallUpdateFutureNotify(p) ==
    \E notification_days \in SUBSET Leads : UpdateFutureRequest(p, TRUE, notification_days)

UpdateFutureGet(p) ==
    /\ pc[p] = "uf_get"
    /\ LET future_txn == FutureGetByTransactionId(local[p].ft)
       IN IF future_txn.status = NONE
          THEN Return(p, NotFoundError)
          ELSE IF NotScheduled(future_txn)
          THEN Return(p, AlreadyProcessedError)
          ELSE /\ local' = local
               /\ Goto(p, "uf_update")
    /\ UNCHANGED <<accounts, transactions, future_transactions, today, initial_balance, queue, stream, notifications, publishing>>

\* future_repo.update(future_txn, payload): setattr of the fields the payload sets;
\* commit.  With a notification list in the payload _schedule_notifications then
\* sends the reminder tasks of the updated row.
UpdateFutureUpdate(p) ==
    /\ pc[p] = "uf_update"
    /\ future_transactions' = [future_transactions EXCEPT
          ![local[p].ft].trigger_type = local[p].trigger_type,
          ![local[p].ft].notification_days =
              IF local[p].notify THEN local[p].notification_days ELSE @]
    /\ notifications' =
          IF local[p].notify
          THEN SendTask(SEND_FUTURE_TRANSACTION_NOTIFICATION, local[p].ft,
                        ScheduleNotifications(future_transactions'[local[p].ft], today))
          ELSE notifications
    /\ Return(p, OK)
    /\ UNCHANGED <<accounts, transactions, today, initial_balance, queue, stream, publishing>>

\* ------------------------------------------------------------- create_future_transaction
\* POST /transactions/future: the request arrives.
CreateFutureRequest(p, notify, notification_days) ==
    /\ \E account_id \in AccountIds, amount \in Amounts, category \in TransactionCategory,
          trigger_type \in FutureTransactionTrigger, due_date \in Days :
          Begin(p, "cf_get", [NoLocal EXCEPT !.account_id = account_id,
                                             !.amount = amount,
                                             !.category = category,
                                             !.trigger_type = trigger_type,
                                             !.due_date = due_date,
                                             !.notify = notify,
                                             !.notification_days = notification_days])
    /\ UNCHANGED <<accounts, transactions, future_transactions, today, initial_balance, queue, stream, notifications, publishing>>

\* The payload leaves notification_days and notification_users out.
CallCreateFuture(p) == CreateFutureRequest(p, FALSE, {})

\* The payload names the users to notify and the lead times.
CallCreateFutureNotify(p) ==
    \E notification_days \in SUBSET Leads : CreateFutureRequest(p, TRUE, notification_days)

\* A variant of the check that accepts a due date of today.
DueDateInvalidBeforeToday(due_date, day) == due_date < day

\* The due-date check of create_future_transaction.
DueDateInvalid(due_date, day) == due_date <= day

\* acct_repo.get, the not-found and the due-date check.
CreateFutureGet(p) ==
    /\ pc[p] = "cf_get"
    /\ IF local[p].account_id \notin DOMAIN accounts
       THEN Return(p, NotFoundError)
       ELSE IF DueDateInvalid(local[p].due_date, today)
       THEN Return(p, InvalidTransactionError)
       ELSE /\ local' = local
            /\ Goto(p, "cf_create")
    /\ UNCHANGED <<accounts, transactions, future_transactions, today, initial_balance, queue, stream, notifications, publishing>>

\* future_repo.create(payload, user_id): the row is inserted and committed; with
\* both notification lists in the payload _schedule_notifications sends the
\* reminder tasks; then the FutureTransactionCreatedEvent and the response.
CreateFutureCreate(p) ==
    /\ pc[p] = "cf_create"
    /\ Len(future_transactions) < MaxFuture
    /\ LET future_txn == FutureTransaction(local[p].account_id, local[p].amount,
                             local[p].category, local[p].trigger_type, local[p].due_date,
                             local[p].notification_days)
       IN /\ future_transactions' = AfterEmit("future_transaction.created",
                CreateFutureEvent, future_transactions,
                Append(future_transactions, future_txn))
          /\ notifications' = SendTask(SEND_FUTURE_TRANSACTION_NOTIFICATION,
                Len(future_transactions) + 1, ScheduleNotifications(future_txn, today))
    /\ Emit(p, API, "future_transaction.created", CreateFutureEvent,
            Len(future_transactions) + 1)
    /\ UNCHANGED <<accounts, transactions, today, initial_balance, stream, publishing>>

\* ------------------------------------------------------------- process_due_future
\* FutureTransactionRepository.get_due(target_date): the ids of the scheduled rows
\* due that day, each with the trigger type the session has loaded for it.
GetDue(target_date) ==
    {[id |-> i, trigger_type |-> future_transactions[i].trigger_type] :
        i \in {j \in DOMAIN future_transactions :
                  /\ future_transactions[j].due_date = target_date
                  /\ future_transactions[j].status = SCHEDULED}}

\* Celery beat starts the task.
CallProcessDueFuture(p) ==
    /\ Begin(p, "pd_due", NoLocal)
    /\ UNCHANGED <<accounts, transactions, future_transactions, today, initial_balance, queue, stream, notifications, publishing>>

\* due = await future_repo.get_due(date.today())
ProcessDueFutureDue(p) ==
    /\ pc[p] = "pd_due"
    /\ local' = [local EXCEPT ![p].due = GetDue(today)]
    /\ Goto(p, "pd_row")
    /\ UNCHANGED <<accounts, transactions, future_transactions, today, initial_balance, queue, stream, notifications, publishing>>

\* The rows of the batch the loop does not skip.
Automatic(due) == {fx \in due : fx.trigger_type = AUTOMATIC}

\* The loop over `due` (the query states no order): a row that is not automatic is
\* skipped; for the next automatic one txn_repo.create inserts and commits the
\* Transaction.  With no such row left the loop is over: publish_events, and the
\* task ends.
ProcessDueFutureRow(p) ==
    /\ pc[p] = "pd_row"
    /\ IF Automatic(local[p].due) = {}
       THEN /\ queue' = PublishedQueue(WORKER)
            /\ stream' = PublishedStream(WORKER)
            /\ Return(p, OK)
            /\ UNCHANGED transactions
       ELSE /\ UNCHANGED <<queue, stream>> /\ Len(transactions) < MaxTransactions
            /\ \E fx \in Automatic(local[p].due) :
                  LET row == future_transactions[fx.id]
                  IN /\ transactions' = Append(transactions,
                           Transaction(row.account_id, row.amount, row.category, fx.id))
                     /\ local' = [local EXCEPT ![p].due = @ \ {fx},
                                               ![p].ft = fx.id,
                                               ![p].txn = Len(transactions) + 1,
                                               ![p].account_id = row.account_id,
                                               ![p].amount = row.amount,
                                               ![p].category = row.category]
            /\ Goto(p, "pd_acct")
    /\ UNCHANGED <<accounts, future_transactions, today, initial_balance, notifications, publishing>>

\* acct = await acct_repo.get(fx.account_id)
ProcessDueFutureAcct(p) ==
    /\ pc[p] = "pd_acct"
    /\ local' = [local EXCEPT ![p].account = AcctGet(p, local[p].account_id)]
    /\ Goto(p, "pd_adjust")
    /\ UNCHANGED <<accounts, transactions, future_transactions, today, initial_balance, queue, stream, notifications, publishing>>

\* acct_repo.adjust_balance(acct, fx.amount, credit): an exception leaves the task.
ProcessDueFutureAdjust(p) ==
    /\ pc[p] = "pd_adjust"
    /\ LET credit == local[p].category = INCOME
       IN IF AdjustRaises(local[p].account, local[p].amount, credit)
          THEN /\ Return(p, InsufficientBalanceError)
               /\ UNCHANGED <<accounts, transactions>>
          ELSE LET account == Adjusted(local[p].account, local[p].amount, credit)
               IN /\ accounts' = Flush(local[p].account_id, account)
                  /\ transactions' = [transactions EXCEPT ![local[p].txn].posted = @ + 1]
                  /\ local' = [local EXCEPT ![p].account = account]
                  /\ Goto(p, "pd_status")
    /\ UNCHANGED <<future_transactions, today, initial_balance, queue, stream, notifications, publishing>>

\* fx.status = PROCESSED; session.add(fx); session.commit().  The Transaction the
\* task created keeps the status it was inserted with.  Then the
\* FutureTransactionTriggeredEvent; with it added the loop goes on, and an exception
\* in building it leaves the task.
ProcessDueFutureStatus(p) ==
    /\ pc[p] = "pd_status"
    /\ future_transactions' = AfterEmit("future_transaction.triggered",
          ProcessDueFutureEvent, future_transactions,
          [future_transactions EXCEPT ![local[p].ft].status = PROCESSED])
    /\ IF Constructs("future_transaction.triggered", ProcessDueFutureEvent)
       THEN /\ queue' = [queue EXCEPT ![WORKER] =
                   Append(@, [event_type |-> "future_transaction.triggered",
                              id |-> local[p].ft])]
            /\ local' = local
            /\ Goto(p, "pd_row")
       ELSE /\ queue' = queue
            /\ Return(p, ValidationError)
    /\ UNCHANGED <<accounts, transactions, today, initial_balance, stream, notifications, publishing>>

\* ------------------------------------------------------------- send_future_notifications
\* Celery beat starts the hourly task.
CallSendFutureNotifications(p) ==
    /\ Begin(p, "sn_due", NoLocal)
    /\ UNCHANGED <<accounts, transactions, future_transactions, today, initial_balance, queue, stream, notifications, publishing>>

\* The rows one pass of the loops reaches with a reminder to send: scheduled, due in
\* `offset` days, with `offset` among their lead times.
Reminded(day, offset) ==
    {fx \in GetDue(day + offset) :
        offset \in GetNotificationDaysList(future_transactions[fx.id])}

\* for offset in range(1, 31): due = get_due(today + offset); for fx in due: if
\* offset in fx.get_notification_days_list(): await celery_app.send_task(
\* "send_notification", ...).  The message of the first such row (smallest offset;
\* the query states no order within it) is sent, and the await of what send_task
\* returns raises TypeError; with no such row the task ends.
SendFutureNotificationsDue(p) ==
    /\ pc[p] = "sn_due"
    /\ LET offsets == {offset \in Leads \ {0} : Reminded(today, offset) # {}}
       IN IF offsets = {}
          THEN /\ notifications' = notifications
               /\ Return(p, OK)
          ELSE LET offset == CHOOSE o \in offsets : \A o2 \in offsets : o <= o2
               IN \E fx \in Reminded(today, offset) :
                     /\ notifications' = SendTask(SEND_NOTIFICATION, fx.id, {offset})
                     /\ Return(p, TypeError)
    /\ UNCHANGED <<accounts, transactions, future_transactions, today, initial_balance, queue, stream, publishing>>

\* ------------------------------------------------------------- recalculate_balance
\* POST /balances/{account_id}/recalculate: the request arrives.
CallRecalculateBalance(p) ==
    /\ \E account_id \in AccountIds :
          Begin(p, "rb_get", [NoLocal EXCEPT !.account_id = account_id])
    /\ UNCHANGED <<accounts, transactions, future_transactions, today, initial_balance, queue, stream, notifications, publishing>>

RECURSIVE SumRows(_, _, _, _)
\* The sum of the amounts of rows 1..n of the given account, category and status.
SumRows(n, account_id, category, status) ==
    IF n = 0 THEN 0
    ELSE SumRows(n - 1, account_id, category, status)
         + (IF /\ transactions[n].account_id = account_id
               /\ transactions[n].category = category
               /\ transactions[n].status = status
            THEN transactions[n].amount ELSE 0)

\* A variant of the sum that leaves the status out of the WHERE clause.
SumTransactionsAnyStatus(account_id, category) ==
    SumRows(Len(transactions), account_id, category, PROCESSED)
    + SumRows(Len(transactions), account_id, category, PENDING)
    + SumRows(Len(transactions), account_id, category, VERIFIED)
    + SumRows(Len(transactions), account_id, category, VOIDED)
    + SumRows(Len(transactions), account_id, category, FAILED)

\* BalanceService._sum_transactions: coalesce(sum(amount), 0) over the processed rows.
SumTransactions(account_id, category) ==
    SumRows(Len(transactions), account_id, category, PROCESSED)

RecalculateBalanceGet(p) ==
    /\ pc[p] = "rb_get"
    /\ IF local[p].account_id \notin DOMAIN accounts
       THEN Return(p, NotFoundError)
       ELSE /\ local' = [local EXCEPT ![p].account = AcctGet(p, local[p].account_id)]
            /\ Goto(p, "rb_income")
    /\ UNCHANGED <<accounts, transactions, future_transactions, today, initial_balance, queue, stream, notifications, publishing>>

\* income_total = await self._sum_transactions(account_id, INCOME)
RecalculateBalanceIncome(p) ==
    /\ pc[p] = "rb_income"
    /\ local' = [local EXCEPT ![p].total = SumTransactions(local[p].account_id, INCOME)]
    /\ Goto(p, "rb_expense")
    /\ UNCHANGED <<accounts, transactions, future_transactions, today, initial_balance, queue, stream, notifications, publishing>>

\* expense_total = ...; new_balance = income_total - expense_total
RecalculateBalanceExpense(p) ==
    /\ pc[p] = "rb_expense"
    /\ local' = [local EXCEPT ![p].total = @ - SumTransactions(local[p].account_id, EXPENSE)]
    /\ Goto(p, "rb_commit")
    /\ UNCHANGED <<accounts, transactions, future_transactions, today, initial_balance, queue, stream, notifications, publishing>>

\* account.current_balance = account.available_balance = new_balance; commit: the
\* unit of work writes each attribute whose value differs from the one loaded.
Recalculated(account_id, account, new_balance) ==
    [accounts EXCEPT
        ![account_id].current_balance =
            IF new_balance # account.current_balance THEN new_balance ELSE @,
        ![account_id].available_balance =
            IF new_balance # account.available_balance THEN new_balance ELSE @]

RecalculateBalanceCommit(p) ==
    /\ pc[p] = "rb_commit"
    /\ accounts' = Recalculated(local[p].account_id, local[p].account, local[p].total)
    /\ Return(p, OK)
    /\ UNCHANGED <<transactions, future_transactions, today, initial_balance, queue, stream, notifications, publishing>>

\* ------------------------------------------------------------- update_account
\* PUT /accounts/{account_id}: the request arrives; of the payload's fields is_active
\* is modelled.
CallUpdateAccount(p) ==
    /\ \E account_id \in AccountIds, is_active \in BOOLEAN :
          Begin(p, "ua_get", [NoLocal EXCEPT !.account_id = account_id,
                                             !.is_active = is_active])
    /\ UNCHANGED <<accounts, transactions, future_transactions, today, initial_balance, queue, stream, notifications, publishing>>

\* account = await self.repo.get(account_id), and the not-found check.
UpdateAccountGet(p) ==
    /\ pc[p] = "ua_get"
    /\ IF local[p].account_id \notin DOMAIN accounts
       THEN Return(p, NotFoundError)
       ELSE /\ local' = local
            /\ Goto(p, "ua_update")
    /\ UNCHANGED <<accounts, transactions, future_transactions, today, initial_balance, queue, stream, notifications, publishing>>

\* AccountRepository.update: setattr of the payload's fields; commit.
UpdateAccountUpdate(p) ==
    /\ pc[p] = "ua_update"
    /\ accounts' = [accounts EXCEPT ![local[p].account_id].is_active = local[p].is_active]
    /\ Return(p, OK)
    /\ UNCHANGED <<transactions, future_transactions, today, initial_balance, queue, stream, notifications, publishing>>

\* ------------------------------------------------------------- publish_events
\* event_publisher.publish_events() is called in a process: without a Redis client
\* it returns at once; with one, `for e in self._queue` starts at the first event
\* (publishing is the position of the loop, 0 when no call is in progress), and
\* with nothing queued the loop is over and the empty queue is cleared.
PublishEventsBegin(process) ==
    /\ publishing[process] = 0
    /\ calls < MaxCalls
    /\ calls' = calls + 1
    /\ publishing' = [publishing EXCEPT ![process] =
          IF RedisClient(process) /\ queue[process] # <<>> THEN 1 ELSE 0]
    /\ UNCHANGED <<accounts, transactions, future_transactions, today, pc, local, result,
                   initial_balance, queue, stream, notifications>>

\* await r.xadd(...) returns: the event at the loop's position is in the stream.
\* The list iterator then looks at the queue as it is now: with a further event in
\* it, one added meanwhile included, the loop goes on; with none,
\* self._queue.clear() runs before anything else can.
PublishEventsXadd(process) ==
    /\ publishing[process] > 0
    /\ stream' = Append(stream, queue[process][publishing[process]])
    /\ IF publishing[process] < Len(queue[process])
       THEN /\ publishing' = [publishing EXCEPT ![process] = @ + 1]
            /\ queue' = queue
       ELSE /\ publishing' = [publishing EXCEPT ![process] = 0]
            /\ queue' = [queue EXCEPT ![process] = <<>>]
    /\ UNCHANGED <<accounts, transactions, future_transactions, today, pc, local, result,
                   initial_balance, calls, notifications>>

\* A variant in which a failed write empties the queue.
XaddRaisedCleared(events) == <<>>

\* The queue after r.xadd has raised: the exception leaves publish_events before
\* self._queue.clear(), so every event stays queued.
XaddRaised(events) == events

\* await r.xadd(...) raises: the call is over.
PublishEventsRaise(process) ==
    /\ publishing[process] > 0
    /\ publishing' = [publishing EXCEPT ![process] = 0]
    /\ queue' = [queue EXCEPT ![process] = XaddRaised(@)]
    /\ UNCHANGED <<accounts, transactions, future_transactions, today, pc, local, result,
                   initial_balance, calls, stream, notifications>>

\* ------------------------------------------------------------- the calendar
\* Midnight: date.today() moves on.
AdvanceDay ==
    /\ today <= MaxDay
    /\ today' = today + 1
    /\ UNCHANGED <<accounts, transactions, future_transactions, pc, local, result,
                   initial_balance, calls, queue, stream, notifications, publishing>>

\* ------------------------------------------------------------- failure
\* An await raises (the commit fails, the request is cancelled, the task hits its
\* time limit): get_session rolls back what is not committed and re-raises.
\* Everything the handler has committed so far stays.
Abort(p) ==
    /\ pc[p] \notin {"idle"}
    /\ Return(p, DatabaseError)
    /\ UNCHANGED <<accounts, transactions, future_transactions, today, initial_balance, queue, stream, notifications, publishing>>

\* ------------------------------------------------------------- specification
\* One step of session p in a posting handler or the scan task.
LedgerStep(p) ==
    \/ CallCreateTransaction(p)
    \/ CreateTransactionGet(p)
    \/ CreateTransactionCreate(p)
    \/ CreateTransactionAdjust(p)
    \/ CreateTransactionCommit(p)
    \/ CallVoidTransaction(p)
    \/ VoidTransactionGet(p)
    \/ VoidTransactionAcct(p)
    \/ VoidTransactionAdjust(p)
    \/ VoidTransactionVoid(p)
    \/ CallTriggerFuture(p)
    \/ TriggerFutureGet(p)
    \/ TriggerFutureAcct(p)
    \/ TriggerFutureCreate(p)
    \/ TriggerFutureAdjust(p)
    \/ TriggerFutureStatus(p)
    \/ TriggerFutureTxn(p)
    \/ CallScrapFuture(p)
    \/ ScrapFutureGet(p)
    \/ ScrapFutureCommit(p)
    \/ CallUpdateFuture(p)
    \/ UpdateFutureGet(p)
    \/ UpdateFutureUpdate(p)
    \/ CallCreateFuture(p)
    \/ CreateFutureGet(p)
    \/ CreateFutureCreate(p)
    \/ CallProcessDueFuture(p)
    \/ ProcessDueFutureDue(p)
    \/ ProcessDueFutureRow(p)
    \/ ProcessDueFutureAcct(p)
    \/ ProcessDueFutureAdjust(p)
    \/ ProcessDueFutureStatus(p)

\* One step of session p in the reconciliation handler.
RecalculateStep(p) ==
    \/ CallRecalculateBalance(p)
    \/ RecalculateBalanceGet(p)
    \/ RecalculateBalanceIncome(p)
    \/ RecalculateBalanceExpense(p)
    \/ RecalculateBalanceCommit(p)

\* Sessions run concurrently and any await may fail.
Next ==
    \/ \E p \in Procs : LedgerStep(p)
    \/ \E p \in Procs : RecalculateStep(p)
    \/ \E p \in Procs : Abort(p)
    \/ AdvanceDay

Spec == Init /\ [][Next]_vars

\* The same handlers one call at a time: a call starts and runs to its end while
\* every other session is idle, no await fails and nobody reconciles.
Alone(p) == \A q \in Procs \ {p} : pc[q] = "idle"

Quiescent == \A p \in Procs : pc[p] = "idle"

NextSeq ==
    \/ \E p \in Procs : Alone(p) /\ LedgerStep(p)
    \/ AdvanceDay

SpecSeq == Init /\ [][NextSeq]_vars

\* Void(Create(...)): one session creates a single transaction and voids it.
NextVoidCreate ==
    \/ /\ transactions = <<>>
       /\ CallCreateTransaction(1)
    \/ CreateTransactionGet(1)
    \/ CreateTransactionCreate(1)
    \/ CreateTransactionAdjust(1)
    \/ CreateTransactionCommit(1)
    \/ CallVoidTransaction(1)
    \/ VoidTransactionGet(1)
    \/ VoidTransactionAcct(1)
    \/ VoidTransactionAdjust(1)
    \/ VoidTransactionVoid(1)

SpecVoidCreate == Init /\ [][NextVoidCreate]_vars

\* The posting handlers and the scan in concurrent sessions, with no await failing
\* and nobody reconciling.
NextLedger ==
    \/ \E p \in Procs : LedgerStep(p)
    \/ AdvanceDay

SpecLedger == Init /\ [][NextLedger]_vars

\* Reconciliation between calls: one session makes one call after another, a
\* recalculate_balance among them, and no await fails.
NextReconcile ==
    \/ LedgerStep(1)
    \/ RecalculateStep(1)
    \/ AdvanceDay

SpecReconcile == Init /\ [][NextReconcile]_vars

\* Accounts switched off and on: one session updates the account and creates
\* transactions on it, one call after another.
NextActive ==
    \/ CallUpdateAccount(1)
    \/ UpdateAccountGet(1)
    \/ UpdateAccountUpdate(1)
    \/ CallCreateTransaction(1)
    \/ CreateTransactionGet(1)
    \/ CreateTransactionCreate(1)
    \/ CreateTransactionAdjust(1)
    \/ CreateTransactionCommit(1)

SpecActive == Init /\ [][NextActive]_vars

\* The life of a Transaction: session 1 creates and voids, session 2 verifies and
\* updates, and their steps interleave.
NextLifecycle ==
    \/ CallCreateTransaction(1)
    \/ CreateTransactionGet(1)
    \/ CreateTransactionCreate(1)
    \/ CreateTransactionAdjust(1)
    \/ CreateTransactionCommit(1)
    \/ CallVoidTransaction(1)
    \/ VoidTransactionGet(1)
    \/ VoidTransactionAcct(1)
    \/ VoidTransactionAdjust(1)
    \/ VoidTransactionVoid(1)
    \/ CallVerifyTransaction(2)
    \/ VerifyTransactionGet(2)
    \/ VerifyTransactionVerify(2)
    \/ CallUpdateTransaction(2)
    \/ UpdateTransactionGet(2)
    \/ UpdateTransactionUpdate(2)

SpecLifecycle == Init /\ [][NextLifecycle]_vars

\* The publisher at work: session 1 creates and voids transactions, whose events
\* are added to the queue of the API server, while publish_events is called, one
\* call at a time in a process, and its writes succeed or fail.
NextPublisher ==
    \/ CallCreateTransaction(1)
    \/ CreateTransactionGet(1)
    \/ CreateTransactionCreate(1)
    \/ CreateTransactionAdjust(1)
    \/ CreateTransactionCommit(1)
    \/ CallVoidTransaction(1)
    \/ VoidTransactionGet(1)
    \/ VoidTransactionAcct(1)
    \/ VoidTransactionAdjust(1)
    \/ VoidTransactionVoid(1)
    \/ \E process \in Processes : PublishEventsBegin(process)
    \/ \E process \in Processes : PublishEventsXadd(process)
    \/ \E process \in Processes : PublishEventsRaise(process)

SpecPublisher == Init /\ [][NextPublisher]_vars

\* The reminders: session 1 serves create and update requests that name
\* notification lists, session 2 is the worker's hourly send_future_notifications,
\* one call at a time and about a single future transaction.
NextNotify ==
    \/ Alone(1) /\ future_transactions = <<>> /\ CallCreateFutureNotify(1)
    \/ CreateFutureGet(1)
    \/ CreateFutureCreate(1)
    \/ Alone(1) /\ CallUpdateFutureNotify(1)
    \/ UpdateFutureGet(1)
    \/ UpdateFutureUpdate(1)
    \/ Alone(2) /\ CallSendFutureNotifications(2)
    \/ SendFutureNotificationsDue(2)
    \/ Quiescent /\ AdvanceDay

SpecNotify == Init /\ [][NextNotify]_vars

\* The service left running: requests arrive one at a time while Celery beat starts
\* a scan pass again and again (its period is 60 s), one pass at a time.
BeatProcessDueFuture(p) ==
    /\ pc[p] = "idle"
    /\ pc' = [pc EXCEPT ![p] = "pd_due"]
    /\ local' = [local EXCEPT ![p] = NoLocal]
    /\ result' = [result EXCEPT ![p] = NONE]
    /\ UNCHANGED <<accounts, transactions, future_transactions, today, initial_balance,
                   calls, queue, stream, notifications, publishing>>

\* One step of a scan pass in session p.
ScanStep(p) ==
    \/ BeatProcessDueFuture(p)
    \/ ProcessDueFutureDue(p)
    \/ ProcessDueFutureRow(p)
    \/ ProcessDueFutureAcct(p)
    \/ ProcessDueFutureAdjust(p)
    \/ ProcessDueFutureStatus(p)

\* A request arrives in session p.
RequestArrives(p) ==
    \/ CallCreateTransaction(p)
    \/ CallCreateFuture(p)
    \/ CallTriggerFuture(p)

\* The handler of the request in session p goes on.
RequestStep(p) ==
    \/ CreateTransactionGet(p)
    \/ CreateTransactionCreate(p)
    \/ CreateTransactionAdjust(p)
    \/ CreateTransactionCommit(p)
    \/ CreateFutureGet(p)
    \/ CreateFutureCreate(p)
    \/ TriggerFutureGet(p)
    \/ TriggerFutureAcct(p)
    \/ TriggerFutureCreate(p)
    \/ TriggerFutureAdjust(p)
    \/ TriggerFutureStatus(p)
    \/ TriggerFutureTxn(p)

\* Session 1 serves the requests, session 2 is the worker's.
NextFair ==
    \/ Alone(1) /\ RequestArrives(1)
    \/ Alone(1) /\ RequestStep(1)
    \/ Alone(2) /\ ScanStep(2)
    \/ AdvanceDay

\* A handler that has started runs on, the scan is started and runs on for ever, the
\* days pass; whether a request arrives is up to the callers.
SpecFair ==
    /\ Init /\ [][NextFair]_vars
    /\ WF_vars(Alone(1) /\ RequestStep(1))
    /\ WF_vars(Alone(2) /\ ScanStep(2))
    /\ WF_vars(AdvanceDay)

\* ------------------------------------------------------------- properties
Rows == DOMAIN transactions
Futures == DOMAIN future_transactions

\* The Transactions made for future transaction f.
Derived(f) == {t \in Rows : transactions[t].source = f}

\* Session p is inside a trigger or a scan pass working on future transaction f.
Working(p, f) ==
    /\ pc[p] \in {"tf_acct", "tf_create", "tf_adjust", "tf_status", "tf_txn",
                  "pd_acct", "pd_adjust", "pd_status"}
    /\ local[p].ft = f


\* C1: triggering the same FutureTransaction twice (two manual triggers, a trigger
\* racing the scan, two scan passes) posts money at most once: at most one of the
\* Transactions made for it has had its amount applied to the account.
C1_TriggerPostsAtMostOnce ==
    \A f \in Futures :
        Cardinality({t \in Derived(f) : transactions[t].posted > 0}) <= 1

\* C2: every operation is one atomic unit of work: in no reachable state has a
\* balance adjustment landed without the status change it is paired with (the
\* Transaction processed or voided, the FutureTransaction processed).
C2_PostingPairedWithStatus ==
    \A t \in Rows :
        /\ transactions[t].posted > 0 => transactions[t].status \in {PROCESSED, VOIDED}
        /\ transactions[t].reversals > 0 => transactions[t].status = VOIDED
        /\ (transactions[t].posted > 0 /\ transactions[t].source # 0)
              => future_transactions[transactions[t].source].status = PROCESSED

\* C3: for every account, in every reachable state, available_balance is at most
\* current_balance.
C3_AvailableAtMostCurrent ==
    \A a \in Accounts : accounts[a].available_balance <= accounts[a].current_balance

\* C3 witness: a debit has been posted, a posting has been reversed and the balance
\* is no longer the opening one.
C3_Witness ==
    /\ \E t \in Rows : transactions[t].category = EXPENSE /\ transactions[t].posted > 0
    /\ \E t \in Rows : transactions[t].reversals > 0
    /\ accounts[1].current_balance # initial_balance[1]

\* C4: with every call finished, an account without voided entries has
\* current_balance - initial_balance equal to the signed sum of its processed
\* Transactions, those made by a manual trigger and by the scan included.
C4_ProcessedSumIsBalanceDelta ==
    Quiescent =>
        \A a \in Accounts :
            (\A t \in Rows : transactions[t].account_id = a => transactions[t].status # VOIDED)
            => SumTransactions(a, INCOME) - SumTransactions(a, EXPENSE)
                  = accounts[a].current_balance - initial_balance[a]

\* C5: Void(Create(acct, amount, category)) leaves both balances at their values
\* before the Create and the transaction voided, for an income and for an expense:
\* the reversal of the created transaction never fails, and when its Void completes
\* the transaction is voided and both balances are the ones before the Create.
C5_VoidCancelsCreate ==
    [][\A p \in Procs :
          /\ pc[p] = "vt_adjust" => result'[p] # InsufficientBalanceError
          /\ (pc[p] = "vt_void" /\ pc'[p] = "idle")
                => LET a == local[p].account_id
                   IN /\ transactions'[local[p].txn].status = VOIDED
                      /\ accounts'[a].current_balance = initial_balance[a]
                      /\ accounts'[a].available_balance = initial_balance[a]]_vars

\* C5 witness: an income and its void have both completed.
C5_Witness ==
    /\ pc[1] = "idle"
    /\ result[1] = OK
    /\ \E t \in Rows : /\ transactions[t].status = VOIDED
                       /\ transactions[t].reversals = 1
                       /\ transactions[t].category = INCOME

\* C6: the posting of a voided transaction is reversed exactly once whatever the
\* interleaving of the Void calls on it; in particular two Void calls that both
\* read status=processed do not both apply the reversal.
C6_ReversedAtMostOnce ==
    \A t \in Rows : transactions[t].reversals <= 1

\* C7: exactly one Transaction exists per processed FutureTransaction, and a trigger
\* attempt that failed leaves no Transaction row behind: a scheduled future
\* transaction nobody is working on has none.
C7_OneTransactionPerFuture ==
    \A f \in Futures :
        /\ future_transactions[f].status = PROCESSED => Cardinality(Derived(f)) = 1
        /\ (future_transactions[f].status = SCHEDULED /\ \A p \in Procs : ~Working(p, f))
              => Derived(f) = {}

\* C8: a processed, scrapped or expired FutureTransaction is terminal: no step
\* changes its status or any other of its fields.
C8_TerminalNeverMutated ==
    [][\A f \in Futures :
          future_transactions[f].status \in {PROCESSED, SCRAPPED, EXPIRED}
          => future_transactions'[f] = future_transactions[f]]_vars

\* The steps in which adjust_balance runs, and whether session p's is a debit.
AdjustLabels == {"ct_adjust", "vt_adjust", "tf_adjust", "pd_adjust"}

IsDebit(p) ==
    IF pc[p] = "vt_adjust" THEN ~VoidCredit(local[p].category)
    ELSE local[p].category # INCOME

\* C9: a debit through adjust_balance is applied only when the account's
\* available_balance at that moment covers the amount, and then takes the amount
\* off both balances; no debit drives available_balance below zero.
C9_DebitCoveredWhenApplied ==
    [][\A p \in Procs :
          (pc[p] \in AdjustLabels /\ IsDebit(p) /\ pc'[p] \notin {pc[p], "idle"})
          => LET a == local[p].account_id
             IN /\ accounts[a].available_balance >= local[p].amount
                /\ accounts'[a].available_balance
                      = accounts[a].available_balance - local[p].amount
                /\ accounts'[a].current_balance
                      = accounts[a].current_balance - local[p].amount
                /\ accounts'[a].available_balance >= 0]_vars

\* C10: a Create of an expense whose amount exceeds the account's available_balance
\* ends in InsufficientBalanceError, inserts no Transaction and leaves the balances
\* as they are.
C10_ExpenseOverAvailableRejected ==
    [][\A p \in Procs :
          (/\ pc[p] = "ct_get"
           /\ pc'[p] # pc[p]
           /\ result'[p] # DatabaseError
           /\ local[p].account_id \in Accounts
           /\ local[p].category = EXPENSE
           /\ local[p].amount > accounts[local[p].account_id].available_balance)
          => /\ result'[p] = InsufficientBalanceError
             /\ pc'[p] = "idle"
             /\ transactions' = transactions
             /\ accounts' = accounts]_vars

\* C10 witness: with no transaction and no future transaction in the tables a call
\* has ended in InsufficientBalanceError: the funds check of a Create rejected it.
C10_Witness ==
    \E p \in Procs :
        /\ result[p] = InsufficientBalanceError
        /\ transactions = <<>>
        /\ future_transactions = <<>>

\* C11: Trigger on a FutureTransaction that is already triggered or processed is a
\* success no-op: the call ends without an error, posts nothing and creates no
\* Transaction.
C11_RetriggerIsSuccessNoOp ==
    [][\A p \in Procs :
          (/\ pc[p] = "tf_get"
           /\ pc'[p] # pc[p]
           /\ local[p].ft \in Futures
           /\ future_transactions[local[p].ft].status \in {TRIGGERED, PROCESSED})
          => /\ pc'[p] = "idle"
             /\ result'[p] = OK
             /\ accounts' = accounts
             /\ transactions' = transactions
             /\ future_transactions' = future_transactions]_vars

\* The steps of scrap_future_transaction.
ScrapLabels == {"sf_get", "sf_commit"}

\* C12: Scrap never touches the ledger and is only legal from scheduled: no step of
\* a Scrap changes a balance or the Transactions; a Scrap that finds the
\* FutureTransaction in another status ends in AlreadyProcessedError and changes
\* nothing; a Scrap that goes through leaves the FutureTransaction scrapped.
C12_ScrapLeavesLedgerAlone ==
    [][\A p \in Procs :
          (pc[p] \in ScrapLabels /\ pc'[p] # pc[p])
          => /\ accounts' = accounts
             /\ transactions' = transactions
             /\ (/\ pc[p] = "sf_get"
                 /\ local[p].ft \in Futures
                 /\ future_transactions[local[p].ft].status # SCHEDULED
                 /\ result'[p] # DatabaseError)
                => /\ result'[p] = AlreadyProcessedError
                   /\ future_transactions' = future_transactions
             /\ (pc[p] = "sf_commit" /\ result'[p] # DatabaseError)
                => /\ future_transactions'[local[p].ft].status = SCRAPPED
                   /\ future_transactions'[local[p].ft].scrapped_by_user_id = p]_vars

\* C12 witness: a FutureTransaction has been scrapped on an account whose ledger
\* holds a posted Transaction and whose balance has moved.
C12_Witness ==
    /\ \E f \in Futures : /\ future_transactions[f].status = SCRAPPED
                          /\ future_transactions[f].scrapped_by_user_id # 0
                          /\ accounts[future_transactions[f].account_id].current_balance
                                # initial_balance[future_transactions[f].account_id]
    /\ \E t \in Rows : transactions[t].posted > 0

\* C13: after the scan has processed a due automatic FutureTransaction the account
\* could cover, exactly one Transaction made for it exists, with status processed,
\* the same amount and the same category, and its amount has been posted once.
C13_ScanLeavesProcessedTransaction ==
    \A f \in Futures :
        (/\ future_transactions[f].status = PROCESSED
         /\ future_transactions[f].triggered_by_user_id = 0)
        => \E t \in Derived(f) :
              /\ Derived(f) = {t}
              /\ transactions[t].status = PROCESSED
              /\ transactions[t].amount = future_transactions[f].amount
              /\ transactions[t].category = future_transactions[f].category
              /\ transactions[t].posted = 1

\* The steps of a scan pass that work on one row of its batch.
ScanRowLabels == {"pd_acct", "pd_adjust", "pd_status"}

\* C14: the scan isolates failures per row: a pass does not end on one row while
\* other due automatic rows of its batch are still waiting, and the row whose
\* posting failed stays scheduled.
C14_ScanIsolatesFailures ==
    [][\A p \in Procs :
          (pc[p] \in ScanRowLabels /\ pc'[p] = "idle")
          => /\ Automatic(local[p].due) = {}
             /\ result'[p] = InsufficientBalanceError
                => future_transactions'[local[p].ft].status = SCHEDULED]_vars

\* C15: a manual Trigger of an expense FutureTransaction whose amount exceeds the
\* account's available_balance at trigger time ends in InsufficientBalanceError,
\* leaves the FutureTransaction as it is (scheduled), leaves both balances as they
\* are and inserts no Transaction.
C15_TriggerOverAvailableRejected ==
    [][\A p \in Procs :
          (/\ pc[p] = "tf_acct"
           /\ pc'[p] # pc[p]
           /\ result'[p] # DatabaseError
           /\ local[p].category = EXPENSE
           /\ local[p].amount > accounts[local[p].account_id].available_balance)
          => /\ result'[p] = InsufficientToProcess
             /\ pc'[p] = "idle"
             /\ transactions' = transactions
             /\ accounts' = accounts
             /\ future_transactions' = future_transactions]_vars

\* C15 witness: a trigger has been refused for lack of funds; the expense it was
\* for is still scheduled and the transactions table is empty.
C15_Witness ==
    /\ \E p \in Procs : result[p] = InsufficientToProcess
    /\ transactions = <<>>
    /\ \E f \in Futures :
          /\ future_transactions[f].status = SCHEDULED
          /\ future_transactions[f].category = EXPENSE
          /\ future_transactions[f].amount
                > accounts[future_transactions[f].account_id].available_balance

\* C16: a FutureTransaction does not stay scheduled for ever once its due_date has
\* passed: with the scan running again and again, a row that is scheduled and
\* overdue while no call is in progress later becomes processed, scrapped or expired.
C16_OverdueReachesTerminal ==
    \A f \in 1..MaxFuture :
        (/\ Quiescent
         /\ f \in Futures
         /\ future_transactions[f].status = SCHEDULED
         /\ future_transactions[f].due_date < today)
        ~> (/\ f \in Futures
            /\ future_transactions[f].status \in {PROCESSED, SCRAPPED, EXPIRED})

\* The events the publishers can hold.
EventTypes == {"transaction.created", "transaction.voided", "future_transaction.created",
               "future_transaction.triggered", "future_transaction.cancelled"}

Events == [event_type : EventTypes, id : 1..MaxTransactions]

Queued(e) == \E process \in Processes : \E i \in DOMAIN queue[process] : queue[process][i] = e

Streamed(e) == \E i \in DOMAIN stream : stream[i] = e

\* C20: delivery is at least once: every event add_event has taken, in the API
\* server or in the worker, is later written to the stream.
C20_QueuedEventReachesStream ==
    \A e \in Events : Queued(e) ~> Streamed(e)

\* The signed amount of a posting: an income credits, an expense debits.
Signed(category, amount) == IF category = INCOME THEN amount ELSE 0 - amount

\* C17: a Create that passes its checks persists one new Transaction with the
\* request's account, amount and category, posts the amount to both balance fields
\* (an income adds it, an expense takes it off), and ends successfully with the
\* Transaction processed and its processed_date set.
C17_CreatePostsAndProcesses ==
    [][\A p \in Procs :
          /\ (pc[p] = "ct_create" /\ pc'[p] # pc[p])
             => /\ Len(transactions') = Len(transactions) + 1
                /\ transactions'[Len(transactions')].account_id = local[p].account_id
                /\ transactions'[Len(transactions')].amount = local[p].amount
                /\ transactions'[Len(transactions')].category = local[p].category
          /\ (pc[p] = "ct_adjust" /\ pc'[p] # pc[p])
             => LET a == local[p].account_id
                    delta == Signed(local[p].category, local[p].amount)
                IN /\ pc'[p] = "ct_commit"
                   /\ accounts'[a].current_balance = accounts[a].current_balance + delta
                   /\ accounts'[a].available_balance = accounts[a].available_balance + delta
          /\ (pc[p] = "ct_commit" /\ pc'[p] # pc[p])
             => /\ result'[p] = OK
                /\ transactions'[local[p].txn].status = PROCESSED
                /\ transactions'[local[p].txn].processed_date]_vars

\* C17 witness: a Create of an expense has ended successfully; its Transaction is
\* processed and both balances are the opening balance less its amount.
C17_Witness ==
    \E p \in Procs : \E t \in Rows :
        /\ result[p] = OK
        /\ pc[p] = "idle"
        /\ Len(transactions) = 1
        /\ transactions[t].category = EXPENSE
        /\ transactions[t].source = 0
        /\ transactions[t].status = PROCESSED
        /\ transactions[t].processed_date
        /\ LET a == transactions[t].account_id
           IN /\ accounts[a].current_balance = initial_balance[a] - transactions[t].amount
              /\ accounts[a].available_balance = initial_balance[a] - transactions[t].amount

EmitLabels == {"ct_commit", "vt_void", "tf_txn", "sf_commit", "cf_create", "pd_status"}

\* C19: a failure to emit never undoes the ledger change: the event is built and
\* added only in the step that has made the handler's last commit, and whether that
\* step ends well or in the event's ValidationError, the status it committed is in
\* the table and the balances and postings are as they were committed.
C19_EmitFailureKeepsCommit ==
    [][/\ (\E process \in Processes : Len(queue'[process]) > Len(queue[process]))
          => \E p \in Procs : pc[p] \in EmitLabels /\ pc'[p] # pc[p]
       /\ \A p \in Procs :
             (pc[p] \in EmitLabels /\ pc'[p] # pc[p] /\ result'[p] # DatabaseError)
             => /\ accounts' = accounts
                /\ pc[p] \in {"ct_commit", "tf_txn"}
                   => /\ transactions'[local[p].txn].status = PROCESSED
                      /\ transactions'[local[p].txn].posted = transactions[local[p].txn].posted
                      /\ future_transactions' = future_transactions
                /\ pc[p] = "vt_void"
                   => /\ transactions'[local[p].txn].status = VOIDED
                      /\ transactions'[local[p].txn].reversals
                            = transactions[local[p].txn].reversals
                /\ pc[p] = "sf_commit"
                   => future_transactions'[local[p].ft].status = SCRAPPED
                /\ pc[p] = "pd_status"
                   => /\ future_transactions'[local[p].ft].status = PROCESSED
                      /\ transactions' = transactions
                /\ pc[p] = "cf_create"
                   => Len(future_transactions') = Len(future_transactions) + 1]_vars

\* C19 witness: a trigger or a scan pass has ended in the ValidationError of its
\* event, and the FutureTransaction is processed with its amount posted.
C19_Witness ==
    /\ \E p \in Procs : result[p] = ValidationError /\ pc[p] = "idle"
    /\ \E f \in Futures :
          /\ future_transactions[f].status = PROCESSED
          /\ \E t \in Derived(f) : transactions[t].posted = 1
          /\ accounts[future_transactions[f].account_id].current_balance
                # initial_balance[future_transactions[f].account_id]
    /\ queue[API] = <<>>

\* The reminders sent for future transaction f with lead time d, and the reminder
\* jobs queued for them with an eta.
Delivered(f, d) ==
    notifications[[task |-> SEND_NOTIFICATION, future_transaction_id |-> f, days_before |-> d]]

Scheduled(f, d) ==
    notifications[[task |-> SEND_FUTURE_TRANSACTION_NOTIFICATION,
                   future_transaction_id |-> f, days_before |-> d]]

\* C21: after any sequence of Create and Update calls and hourly
\* send_future_notifications passes, at most one reminder is queued and at most one
\* is delivered for each future transaction and lead time: what an earlier call
\* queued is cancelled or replaced, never repeated.
C21_OneReminderPerLeadTime ==
    \A f \in 1..MaxFuture : \A d \in Leads : Delivered(f, d) <= 1 /\ Scheduled(f, d) <= 1

\* C22: get_due(target_date) returns exactly the FutureTransactions that are
\* scheduled, due on target_date and automatic; and the row the scan goes on to
\* trigger is automatic and scheduled.
C22_GetDueOnlyAutomaticScheduled ==
    [][\A p \in Procs :
          /\ (pc[p] = "pd_due" /\ pc'[p] = "pd_row")
             => {fx.id : fx \in local'[p].due}
                   = {f \in Futures : /\ future_transactions[f].status = SCHEDULED
                                       /\ future_transactions[f].due_date = today
                                       /\ future_transactions[f].trigger_type = AUTOMATIC}
          /\ (pc[p] = "pd_row" /\ pc'[p] = "pd_acct")
             => /\ future_transactions[local'[p].ft].trigger_type = AUTOMATIC
                /\ future_transactions[local'[p].ft].status = SCHEDULED]_vars

RECURSIVE Total(_)
\* The sum of the amounts of a set of Transactions.
Total(rows) ==
    IF rows = {} THEN 0
    ELSE LET t == CHOOSE r \in rows : TRUE
         IN transactions[t].amount + Total(rows \ {t})

\* The processed Transactions of account a in a category.
ProcessedRows(a, category) ==
    {t \in Rows : /\ transactions[t].account_id = a
                  /\ transactions[t].category = category
                  /\ transactions[t].status = PROCESSED}

\* C23: recalculate_balance sets current_balance and available_balance both to the
\* sum of the account's processed income less the sum of its processed expense;
\* pending, verified, voided and failed Transactions count for nothing.
C23_RecalculateSetsProcessedSum ==
    [][\A p \in Procs :
          (pc[p] = "rb_commit" /\ pc'[p] = "idle")
          => LET a == local[p].account_id
                 new_balance == Total(ProcessedRows(a, INCOME))
                                - Total(ProcessedRows(a, EXPENSE))
             IN /\ result'[p] = OK
                /\ accounts'[a].current_balance = new_balance
                /\ accounts'[a].available_balance = new_balance]_vars

RECURSIVE Net(_)
\* The signed sum of the balance commits made for a set of Transactions: each
\* posting adds the signed amount, each reversal takes it back.
Net(rows) ==
    IF rows = {} THEN 0
    ELSE LET t == CHOOSE r \in rows : TRUE
         IN (transactions[t].posted - transactions[t].reversals)
               * Signed(transactions[t].category, transactions[t].amount)
            + Net(rows \ {t})

\* The Transactions of account a.
RowsOf(a) == {t \in Rows : transactions[t].account_id = a}

\* C23 witness: a call has ended well on an account that holds a Transaction that
\* is pending or voided; both balances are the processed sum, which is not what
\* the opening balance and the postings add up to: a recalculation has written it.
C23_Witness ==
    /\ pc[1] = "idle"
    /\ result[1] = OK
    /\ \E t \in RowsOf(1) : transactions[t].status \in {PENDING, VOIDED}
    /\ accounts[1].current_balance
          = Total(ProcessedRows(1, INCOME)) - Total(ProcessedRows(1, EXPENSE))
    /\ accounts[1].available_balance = accounts[1].current_balance
    /\ accounts[1].current_balance # initial_balance[1] + Net(RowsOf(1))

\* C29: reconciliation agrees with incremental posting: on an account opened with
\* a zero balance, after calls made one at a time, recalculate_balance leaves
\* current_balance and available_balance as it found them (and so does a second
\* recalculation).
C29_RecalculateChangesNothing ==
    [][\A p \in Procs :
          (/\ pc[p] = "rb_commit"
           /\ pc'[p] = "idle"
           /\ initial_balance[local[p].account_id] = 0)
          => accounts' = accounts]_vars

\* C24: Create validates that the account exists and is active: on an unknown
\* account it ends in NotFoundError, on an account with is_active = FALSE it is
\* rejected, and in both cases no Transaction is inserted and no balance changes.
C24_CreateNeedsActiveAccount ==
    [][\A p \in Procs :
          (pc[p] = "ct_get" /\ pc'[p] # pc[p])
          => /\ local[p].account_id \notin Accounts
                => /\ result'[p] = NotFoundError
                   /\ pc'[p] = "idle"
                   /\ transactions' = transactions
                   /\ accounts' = accounts
             /\ (local[p].account_id \in Accounts /\ ~accounts[local[p].account_id].is_active)
                => /\ result'[p] \notin {OK, NONE}
                   /\ pc'[p] = "idle"
                   /\ transactions' = transactions
                   /\ accounts' = accounts]_vars

\* C25: an attempt to modify a terminal Transaction ends in AlreadyProcessedError
\* and changes nothing: update_transaction on a processed or voided Transaction,
\* verify_transaction on one that is not pending, void_transaction on one already
\* voided; the Transactions and the balances stay as they are.
C25_TerminalTransactionRefused ==
    [][\A p \in Procs :
          (/\ pc'[p] # pc[p]
           /\ local[p].txn \in Rows
           /\ \/ pc[p] = "ut_get" /\ transactions[local[p].txn].status \in {PROCESSED, VOIDED}
              \/ pc[p] = "vf_get" /\ transactions[local[p].txn].status # PENDING
              \/ pc[p] = "vt_get" /\ transactions[local[p].txn].status = VOIDED)
          => /\ result'[p] = AlreadyProcessedError
             /\ pc'[p] = "idle"
             /\ transactions' = transactions
             /\ accounts' = accounts]_vars

\* The steps of verify_transaction.
VerifyLabels == {"vf_get", "vf_verify"}

\* C26: Verify is legal from pending only and moves no money: no step of a Verify
\* changes a balance; a Verify that finds the Transaction in another status ends in
\* AlreadyProcessedError and leaves the Transactions as they are; a Verify that
\* goes through stamps the verifier and ends well.
C26_VerifyMovesNoMoney ==
    [][\A p \in Procs :
          (pc[p] \in VerifyLabels /\ pc'[p] # pc[p])
          => /\ accounts' = accounts
             /\ (/\ pc[p] = "vf_get"
                 /\ local[p].txn \in Rows
                 /\ transactions[local[p].txn].status # PENDING)
                => /\ result'[p] = AlreadyProcessedError
                   /\ transactions' = transactions
             /\ pc[p] = "vf_verify"
                => /\ result'[p] = OK
                   /\ transactions'[local[p].txn].status = VERIFIED
                   /\ transactions'[local[p].txn].verified_by_user_id = p]_vars

\* C26 witness: a Verify has gone through on a Transaction whose amount the Create
\* had already posted, and a later Verify has been refused.
C26_Witness ==
    /\ \E t \in Rows : /\ transactions[t].verified_by_user_id # 0
                       /\ transactions[t].posted = 1
    /\ accounts[1].current_balance # initial_balance[1]
    /\ result[2] = AlreadyProcessedError

\* C27: no posting is lost under concurrency: with every call finished, each
\* account's current_balance is its opening balance plus the signed amounts of all
\* the postings and reversals that adjust_balance has committed for it.
C27_NoPostingLost ==
    Quiescent =>
        \A a \in Accounts :
            accounts[a].current_balance = initial_balance[a] + Net(RowsOf(a))

\* C28: Scrap and Trigger of one FutureTransaction exclude each other under every
\* interleaving, the scan included: a scrapped FutureTransaction has no Transaction
\* made for it and nothing posted for it, and it is never overwritten to processed.
C28_ScrapExcludesTrigger ==
    [][\A f \in Futures :
          /\ future_transactions'[f].status = SCRAPPED => Derived(f)' = {}
          /\ future_transactions[f].status = SCRAPPED
                => future_transactions'[f].status # PROCESSED]_vars

\* C30: the EventPublisher queue never drops an unpublished event: in every step,
\* each event queued in a process is afterwards still queued there or written to
\* the stream; the queue of a process shrinks only in the step that ends a
\* publish_events whose loop has written every queued event; and a call without a
\* Redis client starts no loop and leaves the queue as it is.
C30_QueueNeverDropsUnpublished ==
    [][\A process \in Processes :
          /\ \A i \in DOMAIN queue[process] :
                \/ \E j \in DOMAIN queue'[process] : queue'[process][j] = queue[process][i]
                \/ \E j \in DOMAIN stream' : stream'[j] = queue[process][i]
          /\ Len(queue'[process]) < Len(queue[process])
                => /\ publishing[process] = Len(queue[process])
                   /\ publishing'[process] = 0
                   /\ \A i \in DOMAIN queue[process] :
                         \E j \in DOMAIN stream' : stream'[j] = queue[process][i]
          /\ ~RedisClient(process)
                => publishing'[process] = 0 /\ queue'[process] = queue[process]]_vars

\* C30 witness: a publish_events call has ended in a failed write after a
\* successful one: no call is in progress, and an event that is in the stream is
\* still queued together with one that is not.
C30_Witness ==
    /\ publishing[API] = 0
    /\ \E i \in DOMAIN queue[API] : Streamed(queue[API][i])
    /\ \E i \in DOMAIN queue[API] : ~Streamed(queue[API][i])

====
